---- MODULE Spec2Model ----
(***************************************************************************)
(* remove_console_logs.py: the statement stripper (the Counter and the     *)
(* Remover) and the batch runner (process_file, main).                     *)
(*                                                                         *)
(* A file's content is a sequence of atoms.  An atom is one character      *)
(* ("(", ")", ";", " ", "x", "\n") or one identifier lexed as a whole      *)
(* ("console.log", ...): the regular expression of the detector reads an   *)
(* identifier as a unit and nothing else in the program looks inside one.  *)
(* Indices i are 0-based as in the source; lines[i + 1] is Python's        *)
(* lines[i].                                                               *)
(***************************************************************************)
EXTENDS Naturals, Integers, Sequences, FiniteSets, TLC

VARIABLES
    \* the stripper run on one content (count, remove, count, remove again)
    content, phase, original_count, new_lines, new_content, removed_count,
    spans, remaining_count, second_content, second_removed,
    \* the batch runner
    disk, disk0, pc, idx, ret, returned, results, total_removed, printed,
    report, writes, outcome

stripperVars == <<content, phase, original_count, new_lines, new_content,
                  removed_count, spans, remaining_count, second_content,
                  second_removed>>
batchVars == <<disk, disk0, pc, idx, ret, returned, results, total_removed,
               printed, report, writes, outcome>>
vars == <<stripperVars, batchVars>>

(***************************************************************************)
(* Bounds.                                                                 *)
(***************************************************************************)
MaxLines == 4
NumFiles == 3

(***************************************************************************)
(* Atoms and lines.                                                        *)
(***************************************************************************)
NL == "\n"

Recognized == {"console.log", "console.error", "console.warn",
               "console.debug", "console.info"}

Whitespace == {" ", "\t"}

\* str.count(ch)
CountOf(line, ch) == Cardinality({k \in 1..Len(line) : line[k] = ch})

\* ch in str
Has(line, ch) == \E k \in 1..Len(line) : line[k] = ch

\* the index of the first atom at or after k that \s* does not consume
RECURSIVE SkipWs(_, _)
SkipWs(line, k) ==
    IF k <= Len(line) /\ line[k] \in Whitespace
    THEN SkipWs(line, k + 1)
    ELSE k

\* re.search(r'^\s*console\.(log|error|warn|debug|info)\s*\(', line)
MatchOpener(line) ==
    LET n == SkipWs(line, 1)
    IN  /\ n <= Len(line)
        /\ line[n] \in Recognized
        /\ LET p == SkipWs(line, n + 1)
           IN  p <= Len(line) /\ line[p] = "("

\* content.split('\n'): always at least one line
RECURSIVE SplitFrom(_, _, _)
SplitFrom(s, k, cur) ==
    IF k > Len(s) THEN <<cur>>
    ELSE IF s[k] = NL THEN <<cur>> \o SplitFrom(s, k + 1, <<>>)
    ELSE SplitFrom(s, k + 1, Append(cur, s[k]))

Split(s) == SplitFrom(s, 1, <<>>)

\* variant: ''.join(lines)
RECURSIVE JoinNoSeparator(_)
JoinNoSeparator(ls) ==
    IF Len(ls) = 0 THEN <<>> ELSE ls[1] \o JoinNoSeparator(Tail(ls))

\* '\n'.join(lines): the empty string for no lines
RECURSIVE Join(_)
Join(ls) ==
    IF Len(ls) = 0 THEN <<>>
    ELSE IF Len(ls) = 1 THEN ls[1]
    ELSE ls[1] \o <<NL>> \o Join(Tail(ls))

(***************************************************************************)
(* count_console_statements                                                *)
(***************************************************************************)
\* variant: a detector that knows console.log alone
CounterOpensLogOnly(line) ==
    MatchOpener(line) /\ line[SkipWs(line, 1)] = "console.log"

\* the Counter's detector
CounterOpens(line) == MatchOpener(line)

\* the Counter's test for a multi-line statement
CounterIsMultiLine(line) == Has(line, "(") /\ ~Has(line, ")")

\* the Counter's inner loop: the index at which scanning resumes
RECURSIVE CounterSkip(_, _, _)
CounterSkip(lines, i, depth) ==
    IF i < Len(lines) /\ depth > 0
    THEN CounterSkip(lines, i + 1,
                     depth + CountOf(lines[i + 1], "(") - CountOf(lines[i + 1], ")"))
    ELSE i

\* one iteration of the Counter's outer loop
CountStep(lines, st) ==
    LET line == lines[st.i + 1]
    IN  IF CounterOpens(line)
        THEN IF CounterIsMultiLine(line)
             THEN [i |-> CounterSkip(lines, st.i + 1,
                                     CountOf(line, "(") - CountOf(line, ")")),
                   count |-> st.count + 1]
             ELSE [i |-> st.i + 1, count |-> st.count + 1]
        ELSE [i |-> st.i + 1, count |-> st.count]

RECURSIVE CountLoop(_, _)
CountLoop(lines, st) ==
    IF st.i < Len(lines) THEN CountLoop(lines, CountStep(lines, st)) ELSE st

count_console_statements(c) ==
    CountLoop(Split(c), [i |-> 0, count |-> 0]).count

(***************************************************************************)
(* remove_console_statements                                               *)
(***************************************************************************)
\* variant: a detector that knows console.log alone
RemoverOpensLogOnly(line) ==
    MatchOpener(line) /\ line[SkipWs(line, 1)] = "console.log"

\* the Remover's detector
RemoverOpens(line) == MatchOpener(line)

\* variant: the negation of the Counter's test
RemoverIsSingleLineAsCounter(line) == ~(Has(line, "(") /\ ~Has(line, ")"))

\* the Remover's test for a statement complete on its opening line
RemoverIsSingleLine(line) ==
    \/ Has(line, ";")
    \/ Has(line, ")") /\ CountOf(line, "(") <= CountOf(line, ")")

\* the Remover's inner loop: the index at which scanning resumes
RECURSIVE RemoverSkip(_, _, _)
RemoverSkip(lines, i, depth) ==
    IF i < Len(lines) /\ depth > 0
    THEN RemoverSkip(lines, i + 1,
                     depth + CountOf(lines[i + 1], "(") - CountOf(lines[i + 1], ")"))
    ELSE i

\* variant: the multi-line branch without its continue, which falls through
\* to "keep this line" with line still the opener
RemoveStepNoContinue(lines, st) ==
    LET line == lines[st.i + 1]
    IN  IF RemoverOpens(line)
        THEN IF RemoverIsSingleLine(line)
             THEN [i |-> st.i + 1, new_lines |-> st.new_lines,
                   removed_count |-> st.removed_count + 1,
                   spans |-> Append(st.spans, <<st.i, st.i>>)]
             ELSE LET j == RemoverSkip(lines, st.i + 1,
                                       CountOf(line, "(") - CountOf(line, ")"))
                  IN  [i |-> j + 1, new_lines |-> Append(st.new_lines, line),
                       removed_count |-> st.removed_count + 1,
                       spans |-> Append(st.spans, <<st.i, j - 1>>)]
        ELSE [i |-> st.i + 1, new_lines |-> Append(st.new_lines, line),
              removed_count |-> st.removed_count, spans |-> st.spans]

\* One iteration of the Remover's outer loop.  st.spans is a history of the
\* index ranges [first, last] the loop stepped over without keeping.
RemoveStep(lines, st) ==
    LET line == lines[st.i + 1]
    IN  IF RemoverOpens(line)
        THEN IF RemoverIsSingleLine(line)
             THEN [i |-> st.i + 1, new_lines |-> st.new_lines,
                   removed_count |-> st.removed_count + 1,
                   spans |-> Append(st.spans, <<st.i, st.i>>)]
             ELSE LET j == RemoverSkip(lines, st.i + 1,
                                       CountOf(line, "(") - CountOf(line, ")"))
                  IN  [i |-> j, new_lines |-> st.new_lines,
                       removed_count |-> st.removed_count + 1,
                       spans |-> Append(st.spans, <<st.i, j - 1>>)]
        ELSE [i |-> st.i + 1, new_lines |-> Append(st.new_lines, line),
              removed_count |-> st.removed_count, spans |-> st.spans]

RECURSIVE RemoveLoop(_, _)
RemoveLoop(lines, st) ==
    IF st.i < Len(lines) THEN RemoveLoop(lines, RemoveStep(lines, st)) ELSE st

\* the loop's final state: new_lines, removed_count and the span history
RemoveRun(c) ==
    RemoveLoop(Split(c), [i |-> 0, new_lines |-> <<>>, removed_count |-> 0,
                          spans |-> <<>>])

\* the returned pair (new content, removed count)
remove_console_statements(c) ==
    LET r == RemoveRun(c) IN <<Join(r.new_lines), r.removed_count>>

(***************************************************************************)
(* Inputs of the stripper: every content of 1..MaxLines lines drawn from   *)
(* LineSet.                                                                *)
(***************************************************************************)
LineSet ==
    { <<>>,                                   \* an empty line
      <<"x">>,                                \* plain text
      <<")", ";">>,                           \* the close of a call
      <<"console.info", "(", ")">>,           \* console.info()
      <<" ", "console.log", " ", "(">>,       \*  console.log (
      <<"console.warn", "(", "(", ")">>,      \* console.warn(()
      <<"console.error", "(", ";">>,          \* console.error(;
      <<"x", "console.log", "(">> }           \* xconsole.log(

LineSeqs == UNION { [1..n -> LineSet] : n \in 1..MaxLines }

\* the text of a file that holds the lines ls
RECURSIVE Text(_)
Text(ls) ==
    IF Len(ls) = 1 THEN ls[1] ELSE ls[1] \o <<NL>> \o Text(Tail(ls))

StripperIdle ==
    /\ content = <<>>
    /\ phase = "off"
    /\ original_count = 0
    /\ new_lines = <<>>
    /\ new_content = <<>>
    /\ removed_count = 0
    /\ spans = <<>>
    /\ remaining_count = 0
    /\ second_content = <<>>
    /\ second_removed = 0

StripperInit ==
    /\ content \in { Text(ls) : ls \in LineSeqs }
    /\ phase = "start"
    /\ original_count = 0
    /\ new_lines = <<>>
    /\ new_content = <<>>
    /\ removed_count = 0
    /\ spans = <<>>
    /\ remaining_count = 0
    /\ second_content = <<>>
    /\ second_removed = 0

\* original_count = count_console_statements(original_content)
CountOriginal ==
    /\ phase = "start"
    /\ original_count' = count_console_statements(content)
    /\ phase' = "counted"
    /\ UNCHANGED batchVars
    /\ UNCHANGED <<content, new_lines, new_content, removed_count, spans,
                   remaining_count, second_content, second_removed>>

\* new_content, removed_count = remove_console_statements(original_content)
Remove ==
    /\ phase = "counted"
    /\ new_lines' = RemoveRun(content).new_lines
    /\ spans' = RemoveRun(content).spans
    /\ new_content' = remove_console_statements(content)[1]
    /\ removed_count' = remove_console_statements(content)[2]
    /\ phase' = "removed"
    /\ UNCHANGED batchVars
    /\ UNCHANGED <<content, original_count, remaining_count, second_content,
                   second_removed>>

\* remaining_count = count_console_statements(new_content)
CountRemaining ==
    /\ phase = "removed"
    /\ remaining_count' = count_console_statements(new_content)
    /\ phase' = "verified"
    /\ UNCHANGED batchVars
    /\ UNCHANGED <<content, original_count, new_lines, new_content,
                   removed_count, spans, second_content, second_removed>>

\* the Remover applied to its own output
RemoveAgain ==
    /\ phase = "verified"
    /\ second_content' = remove_console_statements(new_content)[1]
    /\ second_removed' = remove_console_statements(new_content)[2]
    /\ phase' = "again"
    /\ UNCHANGED batchVars
    /\ UNCHANGED <<content, original_count, new_lines, new_content,
                   removed_count, spans, remaining_count>>

(***************************************************************************)
(* process_file                                                            *)
(*                                                                         *)
(* f is what the file system does to this call: f.at is the step that      *)
(* raises ("none", "read", "open_w": opening for writing, "write": after   *)
(* the file was opened, hence truncated, and f.k atoms reached it), f.exc  *)
(* the exception raised.                                                   *)
(***************************************************************************)
IOExceptions == {"OSError", "UnicodeDecodeError"}

\* variant: except OSError
CatchesOSErrorOnly(exc) == exc = "OSError"

\* except Exception: both are subclasses of Exception
Catches(exc) == exc \in IOExceptions

\* variant: no early return
NothingToRemoveNever(n) == FALSE

\* if original_count == 0: return file_path.name, 0, 0
NothingToRemove(n) == n = 0

\* the except clause: what the call leaves behind when step `at` raised exc and
\* the file holds d
Raise(name, d, at, exc, opened) ==
    IF Catches(exc)
    THEN [raised |-> FALSE, ret |-> <<name, 0, -1>>, disk |-> d,
          opened |-> opened, failed_at |-> at,
          printed |-> << <<name, "exception">> >>]
    ELSE [raised |-> TRUE, ret |-> <<>>, disk |-> d,
          opened |-> opened, failed_at |-> at, printed |-> <<>>]

process_file(name, c, f) ==
    LET n_original == count_console_statements(c)
        rm == remove_console_statements(c)
    IN  IF f.at = "read" THEN Raise(name, c, "read", f.exc, 0)
        ELSE IF NothingToRemove(n_original)
        THEN [raised |-> FALSE, ret |-> <<name, 0, 0>>, disk |-> c,
              opened |-> 0, failed_at |-> "none", printed |-> <<>>]
        ELSE IF f.at = "open_w" THEN Raise(name, c, "open_w", f.exc, 0)
        ELSE IF f.at = "write"
        THEN Raise(name, SubSeq(rm[1], 1, f.k), "write", f.exc, 1)
        ELSE [raised |-> FALSE, ret |-> <<name, n_original, rm[2]>>,
              disk |-> rm[1], opened |-> 1, failed_at |-> "none",
              printed |-> <<>>]

(***************************************************************************)
(* main                                                                    *)
(***************************************************************************)
\* sorted(PUBLIC_DIR.glob("*.js")): file names are numbers, in name order
RECURSIVE Sorted(_)
Sorted(S) ==
    IF S = {} THEN <<>>
    ELSE LET m == CHOOSE x \in S : \A y \in S : x <= y
         IN  <<m>> \o Sorted(S \ {m})

js_files == Sorted(DOMAIN disk0)

\* variant: if removed_count != 0
MainBranchNonZero(r) ==
    IF r[3] # 0 THEN "removed"
    ELSE IF r[3] = 0 /\ r[2] = 0 THEN "none"
    ELSE "error"

\* the branch main takes on process_file's result
MainBranch(r) ==
    IF r[3] > 0 THEN "removed"
    ELSE IF r[3] = 0 /\ r[2] = 0 THEN "none"
    ELSE "error"

\* sorted(results, key=lambda x: x[2], reverse=True): stable
RECURSIVE InsertDesc(_, _)
InsertDesc(sorted, r) ==
    IF sorted = <<>> THEN <<r>>
    ELSE IF Head(sorted)[3] >= r[3]
         THEN <<Head(sorted)>> \o InsertDesc(Tail(sorted), r)
         ELSE <<r>> \o sorted

RECURSIVE SortDesc(_)
SortDesc(rs) ==
    IF rs = <<>> THEN <<>>
    ELSE InsertDesc(SortDesc(SubSeq(rs, 1, Len(rs) - 1)), rs[Len(rs)])

\* the summary report
Summary(rs, total) ==
    IF rs # <<>>
    THEN [kind |-> "cleaned", files_cleaned |-> Len(rs), total |-> total,
          breakdown |-> SortDesc(rs)]
    ELSE [kind |-> "nothing", files_cleaned |-> 0, total |-> 0,
          breakdown |-> <<>>]

(***************************************************************************)
(* The batch runner over a directory of at most NumFiles files.            *)
(***************************************************************************)
BatchContents ==
    { <<"x">>,
      Text(<< <<"console.log", "(">>, <<"x">>, <<")", ";">>, <<"x">> >>),
      Text(<< <<"console.log", "(", ")", ";">>, <<"console.warn", "(", "(", ")">>,
              <<"console.info", "(", ")">> >>) }

Faults(c) ==
    {[at |-> "none", exc |-> "", k |-> 0]}
    \cup {[at |-> "read", exc |-> e, k |-> 0] : e \in IOExceptions}
    \cup {[at |-> "open_w", exc |-> "OSError", k |-> 0]}
    \cup {[at |-> "write", exc |-> "OSError", k |-> n] :
             n \in 0..Len(remove_console_statements(c)[1])}

BatchIdle ==
    /\ disk = <<>>
    /\ disk0 = <<>>
    /\ pc = "off"
    /\ idx = 0
    /\ ret = <<>>
    /\ returned = <<>>
    /\ results = <<>>
    /\ total_removed = 0
    /\ printed = <<>>
    /\ report = [kind |-> "", files_cleaned |-> 0, total |-> 0,
                 breakdown |-> <<>>]
    /\ writes = <<>>
    /\ outcome = <<>>

BatchInit ==
    /\ disk0 \in UNION { [S -> BatchContents] : S \in SUBSET (1..NumFiles) }
    /\ disk = disk0
    /\ pc = "loop"
    /\ idx = 0
    /\ ret = <<>>
    /\ returned = <<>>
    /\ results = <<>>
    /\ total_removed = 0
    /\ printed = <<>>
    /\ report = [kind |-> "", files_cleaned |-> 0, total |-> 0,
                 breakdown |-> <<>>]
    /\ writes = [n \in DOMAIN disk0 |-> 0]
    /\ outcome = [n \in DOMAIN disk0 |-> "pending"]

\* filename, original_count, removed_count = process_file(js_file)
ProcessFile ==
    /\ pc = "loop"
    /\ idx < Len(js_files)
    /\ LET name == js_files[idx + 1]
       IN  \E f \in Faults(disk[name]) :
             LET r == process_file(name, disk[name], f)
             IN  /\ disk' = [disk EXCEPT ![name] = r.disk]
                 /\ writes' = [writes EXCEPT ![name] = @ + r.opened]
                 /\ outcome' = [outcome EXCEPT ![name] =
                                  IF r.failed_at # "none" THEN r.failed_at
                                  ELSE IF r.opened = 1 THEN "written"
                                  ELSE "untouched"]
                 /\ printed' = printed \o r.printed
                 /\ ret' = r.ret
                 /\ returned' = IF r.raised THEN returned
                                ELSE Append(returned, r.ret)
                 /\ pc' = IF r.raised THEN "aborted" ELSE "returned"
    /\ UNCHANGED stripperVars
    /\ UNCHANGED <<disk0, idx, results, total_removed, report>>

\* the body of main's loop after the call
MainStep ==
    /\ pc = "returned"
    /\ LET b == MainBranch(ret)
       IN  /\ results' = IF b = "removed" THEN Append(results, ret) ELSE results
           /\ total_removed' = IF b = "removed" THEN total_removed + ret[3]
                               ELSE total_removed
           /\ printed' = Append(printed, <<ret[1], b>>)
    /\ idx' = idx + 1
    /\ pc' = "loop"
    /\ UNCHANGED stripperVars
    /\ UNCHANGED <<disk, disk0, ret, returned, report, writes, outcome>>

\* the summary report, after the loop
PrintSummary ==
    /\ pc = "loop"
    /\ idx = Len(js_files)
    /\ report' = Summary(results, total_removed)
    /\ pc' = "done"
    /\ UNCHANGED stripperVars
    /\ UNCHANGED <<disk, disk0, idx, ret, returned, results, total_removed,
                   printed, writes, outcome>>

(***************************************************************************)
(* The specification: the stripper applied to a content, or main run over  *)
(* a directory.                                                            *)
(***************************************************************************)
Init ==
    \/ StripperInit /\ BatchIdle
    \/ StripperIdle /\ BatchInit

Next ==
    \/ CountOriginal
    \/ Remove
    \/ CountRemaining
    \/ RemoveAgain
    \/ ProcessFile
    \/ MainStep
    \/ PrintSummary

Spec == Init /\ [][Next]_vars

(***************************************************************************)
(* Properties.                                                             *)
(***************************************************************************)
Removed == phase \in {"removed", "verified", "again"}

\* '(' count minus ')' count of a line
Net(line) == CountOf(line, "(") - CountOf(line, ")")

\* the depth after lines s..j of a statement opened at s
RECURSIVE DepthAfter(_, _, _)
DepthAfter(lines, s, j) ==
    IF j < s THEN 0 ELSE DepthAfter(lines, s, j - 1) + Net(lines[j + 1])

InSpan(i, sp) == \E k \in 1..Len(sp) : sp[k][1] <= i /\ i <= sp[k][2]

\* the lines outside every span, in order
RECURSIVE KeptFrom(_, _, _)
KeptFrom(lines, i, sp) ==
    IF i >= Len(lines) THEN <<>>
    ELSE (IF InSpan(i, sp) THEN <<>> ELSE <<lines[i + 1]>>)
         \o KeptFrom(lines, i + 1, sp)

\* the first index at or after i of a line that opens a call; Len(lines) if none
FirstOpenerFrom(lines, i) ==
    LET O == {m \in i..(Len(lines) - 1) : MatchOpener(lines[m + 1])}
    IN  IF O = {} THEN Len(lines)
        ELSE CHOOSE m \in O : \A o \in O : m <= o

\* the last line of the statement opened at s, as the span resolver states it
ExpectedEnd(lines, s) ==
    IF Has(lines[s + 1], ";")
       \/ CountOf(lines[s + 1], "(") <= CountOf(lines[s + 1], ")")
    THEN s
    ELSE LET J == {j \in (s + 1)..(Len(lines) - 1) : DepthAfter(lines, s, j) <= 0}
         IN  IF J = {} THEN Len(lines) - 1
             ELSE CHOOSE j \in J : \A o \in J : j <= o

RECURSIVE SpanLines(_)
SpanLines(sp) ==
    IF sp = <<>> THEN 0
    ELSE (Head(sp)[2] - Head(sp)[1] + 1) + SpanLines(Tail(sp))

RECURSIVE SumRemoved(_)
SumRemoved(rs) == IF rs = <<>> THEN 0 ELSE Head(rs)[3] + SumRemoved(Tail(rs))

\* C1: the Remover applied to its own output returns that output unchanged
\* and removes 0 statements.
C1_Idempotent ==
    phase = "again" => second_content = new_content /\ second_removed = 0

C1_Witness ==
    phase = "again" /\ removed_count >= 2 /\ Len(new_lines) >= 1

\* C2: the lines of the Remover's output are the input lines outside the
\* removed spans, unmodified and in their order; the spans are contiguous index
\* ranges, each starting strictly after the previous one's last line.
C2_Subsequence ==
    Removed =>
      LET lines == Split(content)
      IN  /\ \A k \in 1..Len(spans) :
               /\ 0 <= spans[k][1]
               /\ spans[k][1] <= spans[k][2]
               /\ spans[k][2] < Len(lines)
          /\ \A k \in 1..(Len(spans) - 1) : spans[k + 1][1] > spans[k][2]
          /\ new_lines = KeptFrom(lines, 0, spans)
          /\ IF new_lines = <<>> THEN new_content = <<>>
             ELSE Split(new_content) = new_lines

C2_Witness ==
    /\ phase = "removed"
    /\ Len(spans) = 2
    /\ spans[2][1] > spans[1][2] + 1
    /\ spans[1][1] > 0
    /\ Len(new_lines) = 2

\* C3: count_console_statements(content) equals the removed count of
\* remove_console_statements(content).
C3_CountsAgree == Removed => original_count = removed_count

\* C4: count_console_statements of the Remover's output is 0, also for input
\* with unbalanced parentheses.
C4_NoneRemaining ==
    phase \in {"verified", "again"} =>
      /\ remaining_count = 0
      /\ \A k \in 1..Len(new_lines) : ~MatchOpener(new_lines[k])

C4_Witness ==
    /\ phase = "verified"
    /\ Len(spans) = 1
    /\ Len(new_lines) >= 1
    /\ LET lines == Split(content)
       IN  /\ spans[1][2] = Len(lines) - 1
           /\ DepthAfter(lines, spans[1][1], spans[1][2]) > 0

\* C9: each span starts at the first opener at or after the scan position;
\* it is that line alone when the line holds ';' or has no more '(' than ')';
\* otherwise it ends at the first later line after which the depth is <= 0, or
\* at the last line of the input.  Each span counts 1.
C9_SpanResolution ==
    Removed =>
      LET lines == Split(content)
      IN  /\ removed_count = Len(spans)
          /\ \A k \in 1..Len(spans) :
               LET from == IF k = 1 THEN 0 ELSE spans[k - 1][2] + 1
               IN  /\ spans[k][1] = FirstOpenerFrom(lines, from)
                   /\ spans[k][2] = ExpectedEnd(lines, spans[k][1])
          /\ LET rest == IF spans = <<>> THEN 0 ELSE spans[Len(spans)][2] + 1
             IN  FirstOpenerFrom(lines, rest) = Len(lines)
          /\ Len(new_lines) = Len(lines) - SpanLines(spans)

C9_Witness ==
    /\ phase = "removed"
    /\ removed_count = 1
    /\ spans[1][2] = spans[1][1] + 2
    /\ DepthAfter(Split(content), spans[1][1], spans[1][2]) = 0
    /\ Len(new_lines) = Len(Split(content)) - 3
    /\ Len(new_lines) = 1

\* C10: the Counter returns 0 exactly when the Remover removes 0 statements,
\* exactly when no line opens a call; process_file never returns
\* original_count > 0 with removed_count = 0, a file left untouched has no
\* opener line, and main reports an error only for the sentinel -1.
C10_ZeroTogether ==
    /\ phase \in {"counted", "removed", "verified", "again"} =>
         (original_count = 0
            <=> FirstOpenerFrom(Split(content), 0) = Len(Split(content)))
    /\ Removed => (original_count = 0 <=> removed_count = 0)
    /\ \A k \in 1..Len(returned) :
         /\ ~(returned[k][2] > 0 /\ returned[k][3] = 0)
         /\ MainBranch(returned[k]) = "error" => returned[k][3] = -1
    /\ \A k \in 1..Len(printed) :
         printed[k][2] = "error" =>
           outcome[printed[k][1]] \in {"read", "open_w", "write"}
    /\ \A name \in DOMAIN outcome :
         outcome[name] = "untouched" =>
           FirstOpenerFrom(Split(disk0[name]), 0) = Len(Split(disk0[name]))

C10_Witness ==
    /\ pc = "done"
    /\ \E k \in 1..Len(printed) : printed[k][2] = "error"
    /\ \E k \in 1..Len(returned) :
         returned[k][3] > 0 /\ returned[k][2] > returned[k][3]

\* the files main's loop body has finished with
Handled == {js_files[k] : k \in 1..idx}

Failed(name) == outcome[name] \in {"read", "open_w", "write"}

\* some action of the batch runner can be taken (the guards of ProcessFile,
\* MainStep and PrintSummary)
CanStep ==
    \/ pc = "loop" /\ idx < Len(js_files)
    \/ pc = "returned"
    \/ pc = "loop" /\ idx = Len(js_files)

\* C5: a file whose read or write raises yields the sentinel and stays out of
\* the files cleaned; every other file is processed exactly once, in sorted
\* name order, with its own counts; the loop is never aborted nor stuck
\* before the summary.
C5_BatchIsolation ==
    pc # "off" =>
      /\ pc \in {"loop", "returned", "done"}
      /\ pc = "done" \/ CanStep
      /\ \A a, b \in 1..Len(js_files) : a < b => js_files[a] < js_files[b]
      /\ {js_files[k] : k \in 1..Len(js_files)} = DOMAIN disk0
      /\ Len(returned) <= Len(js_files)
      /\ pc = "done" => Len(returned) = Len(js_files)
      /\ \A k \in 1..Len(returned) :
           LET name == js_files[k]
           IN  IF Failed(name)
               THEN /\ returned[k] = <<name, 0, -1>>
                    /\ \A r \in 1..Len(results) : results[r][1] # name
                    /\ \A r \in 1..Len(report.breakdown) :
                         report.breakdown[r][1] # name
               ELSE returned[k] =
                      <<name, count_console_statements(disk0[name]),
                        remove_console_statements(disk0[name])[2]>>

C5_Witness ==
    /\ pc = "done"
    /\ Len(js_files) = 3
    /\ outcome[js_files[1]] = "written"
    /\ outcome[js_files[2]] = "read"
    /\ outcome[js_files[3]] = "written"
    /\ report.files_cleaned = 2

\* C6: a file whose before-count is 0 is never written, holds its original
\* content, and is reported by main as "no statements found".
C6_ZeroUntouched ==
    \A name \in DOMAIN disk0 :
      count_console_statements(disk0[name]) = 0 =>
        /\ writes[name] = 0
        /\ disk[name] = disk0[name]
        /\ (name \in Handled /\ outcome[name] # "read") =>
             /\ outcome[name] = "untouched"
             /\ \E k \in 1..Len(printed) : printed[k] = <<name, "none">>
             /\ \A k \in 1..Len(printed) : printed[k][1] = name =>
                                             printed[k][2] = "none"

C6_Witness ==
    /\ pc = "done"
    /\ \E name \in DOMAIN disk0 :
         outcome[name] = "untouched" /\ <<name, "none">> = printed[Len(printed)]
    /\ \E name \in DOMAIN disk0 : outcome[name] = "written"

\* C7: after a failed write step the file holds its complete original content
\* or the complete new content.
C7_NeverHalfWritten ==
    \A name \in DOMAIN disk0 :
      outcome[name] \in {"open_w", "write"} =>
        disk[name] \in {disk0[name], remove_console_statements(disk0[name])[1]}

\* C8: at the summary, files cleaned is the number of results with removed
\* count > 0 and the total is the sum of their removed counts; the sentinel is
\* never added and never listed; the breakdown is ordered by removed count
\* descending.
C8_Aggregate ==
    /\ total_removed = SumRemoved(results)
    /\ \A r \in 1..Len(results) : results[r][3] > 0
    /\ pc = "done" =>
         LET cleaned == {k \in 1..Len(returned) : returned[k][3] > 0}
             b == report.breakdown
         IN  /\ report.files_cleaned = Cardinality(cleaned)
             /\ report.total = SumRemoved(SelectSeq(returned, LAMBDA r : r[3] > 0))
             /\ report.kind = (IF cleaned = {} THEN "nothing" ELSE "cleaned")
             /\ Len(b) = Cardinality(cleaned)
             /\ {b[k] : k \in 1..Len(b)} = {returned[k] : k \in cleaned}
             /\ \A i, j \in 1..Len(b) : i < j => b[i][3] >= b[j][3]

C8_Witness ==
    /\ pc = "done"
    /\ Len(report.breakdown) = 2
    /\ report.breakdown # results
    /\ report.total = 3
    /\ report.breakdown[1][2] = 3
    /\ \E k \in 1..Len(returned) : returned[k][3] = -1

====
